---------------------------- MODULE Spec2Model ----------------------------
(***************************************************************************)
(* A model of uriref.py: the template resolver merge_strings, the RFC 2396 *)
(* grammar tables (plain and grouped), the compiled matchers, match,       *)
(* urlparse, isfragment and the URIRef component view with its canonical   *)
(* reconstruction.                                                         *)
(*                                                                         *)
(* Text is a sequence of one-character strings.  Python's None is the      *)
(* value None below, which is no text.                                     *)
(***************************************************************************)
EXTENDS Integers, Sequences, FiniteSets, TLC

VARIABLES
    strings,        \* merge_strings: the argument, name -> template
    names,          \* merge_strings: the work queue
    results,        \* merge_strings: the dictionary being filled
    pc,             \* merge_strings: "loop", "done" or "failed"
    stalled,        \* history: failed attempts since the last success (saturating)
    retried,        \* history: some name was pushed back to the end of the queue
    names2,         \* a second call on the same table, another key order
    results2,
    pc2,
    retried2,
    input,          \* the text handed to match, urlparse, URIRef, isfragment
    phase,          \* the call made last on input
    view,           \* the outcome of URIRef(input, opaque_targets=...)
    asked,          \* the attribute read last, or the grammar term tried last
    loc,            \* isfragment's second argument
    ret,            \* the outcome of the call made last
    ret2            \* the outcome of str(URIRef(ret))

mvars == <<strings, names, results, pc, stalled, retried, names2, results2, pc2, retried2>>

uvars == <<input, phase, view, asked, loc, ret, ret2>>

vars == <<mvars, uvars>>

None == <<"<None>">>

Chars(str) == [i \in 1..Len(str) |-> SubSeq(str, i, i)]

Min(a, b) == IF a < b THEN a ELSE b

RECURSIVE Flatten(_)
Flatten(ss) == IF ss = <<>> THEN <<>> ELSE Head(ss) \o Flatten(Tail(ss))

(***************************************************************************)
(* Templates.  A template is a Python %-format string: literal characters, *)
(* "%%" and "%(name)s" placeholders.                                       *)
(***************************************************************************)
Lit(c) == <<"lit", c>>
Pct == <<"pct">>
Ref(n) == <<"ref", n>>

IsRef(tok) == tok[1] = "ref"

Refs(tpl) == {tpl[i][2] : i \in {j \in 1..Len(tpl) : IsRef(tpl[j])}}

\* template % results raises (KeyError) iff a placeholder names a key results lacks
Raises(tpl, res) == \E n \in Refs(tpl) : n \notin DOMAIN res

\* template % results, when it does not raise
Format(tpl, res) ==
    Flatten([i \in 1..Len(tpl) |->
        CASE tpl[i][1] = "lit" -> <<tpl[i][2]>>
          [] tpl[i][1] = "pct" -> <<"%">>
          [] tpl[i][1] = "ref" -> res[tpl[i][2]]])

\* what a call does: return a value or raise
Returned(v) == [raised |-> "", value |-> v]
Raised(e) == [raised |-> e, value |-> None]

\* no call on a text is under way
UriIdle ==
    /\ input = <<>>
    /\ phase = "idle"
    /\ view = Raised("unset")
    /\ asked = ""
    /\ loc = None
    /\ ret = Raised("unset")
    /\ ret2 = Raised("unset")

(***************************************************************************)
(* The tables merge_strings is called on.                                  *)
(***************************************************************************)
MaxRefs == 2
MaxStall == 4

TableNames == {"a", "b", "c"}
External == "z"
RefOrder == <<"a", "b", "c", "z">>

\* strictly increasing index sequences: the placeholders of one template
RefLists == {q \in UNION {[1..k -> 1..Len(RefOrder)] : k \in 0..MaxRefs} :
                \A i \in 1..(Len(q) - 1) : q[i] < q[i + 1]}

\* the template "<n>%%%(r1)s%(r2)s..."
Template(n, q) == <<Lit(n), Pct>> \o [i \in 1..Len(q) |-> Ref(RefOrder[q[i]])]

Tables == {[n \in TableNames |-> Template(n, f[n])] : f \in [TableNames -> RefLists]}

\* strings.keys(): a Python 2 dict lists its keys in an arbitrary order
KeyOrders(tbl) == {q \in [1..Cardinality(DOMAIN tbl) -> DOMAIN tbl] :
                      \A i, j \in DOMAIN q : i # j => q[i] # q[j]}

EmptyDict == [n \in {} |-> <<>>]

Put(d, k, v) == [x \in DOMAIN d \cup {k} |-> IF x = k THEN v ELSE d[x]]

(***************************************************************************)
(* merge_strings, one loop iteration per step.                             *)
(***************************************************************************)
\* a slip: assert name != names[-1], which fails on every retry
IterateOnAssertLast(tbl, q, res) ==
    LET name == Head(q)
    IN  IF ~Raises(tbl[name], res)
        THEN [names |-> Tail(q), results |-> Put(res, name, Format(tbl[name], res)),
              pc |-> "loop", ok |-> TRUE]
        ELSE [names |-> Append(Tail(q), name), results |-> res, pc |-> "failed", ok |-> FALSE]

\* a slip: the assert left out
IterateOnNoAssert(tbl, q, res) ==
    LET name == Head(q)
    IN  IF ~Raises(tbl[name], res)
        THEN [names |-> Tail(q), results |-> Put(res, name, Format(tbl[name], res)),
              pc |-> "loop", ok |-> TRUE]
        ELSE [names |-> Append(Tail(q), name), results |-> res, pc |-> "loop", ok |-> FALSE]

\* a slip: a missing key formats as the empty text instead of raising
IterateOnLenient(tbl, q, res) ==
    LET name == Head(q)
        padded == [n \in DOMAIN res \cup Refs(tbl[name]) |->
                      IF n \in DOMAIN res THEN res[n] ELSE <<>>]
    IN  [names |-> Tail(q), results |-> Put(res, name, Format(tbl[name], padded)),
         pc |-> "loop", ok |-> TRUE]

\* name = names.pop(0)
\* try: results[name] = strings[name] % results
\* except: names.append(name); assert name != names[0]
IterateOn(tbl, q, res) ==
    LET name == Head(q)
        rest == Tail(q)
    IN  IF ~Raises(tbl[name], res)
        THEN [names |-> rest, results |-> Put(res, name, Format(tbl[name], res)),
              pc |-> "loop", ok |-> TRUE]
        ELSE LET back == Append(rest, name)
             IN  [names |-> back, results |-> res,
                  pc |-> IF name # back[1] THEN "loop" ELSE "failed", ok |-> FALSE]

Iterate ==
    /\ pc = "loop"
    /\ names # <<>>
    /\ LET r == IterateOn(strings, names, results)
       IN  /\ names' = r.names
           /\ results' = r.results
           /\ pc' = r.pc
           /\ stalled' = IF r.ok THEN 0 ELSE Min(stalled + 1, MaxStall)
           /\ retried' = (retried \/ ~r.ok)
    /\ UNCHANGED <<strings, names2, results2, pc2, retried2, uvars>>

\* while names: ... is over; return results
Return ==
    /\ pc = "loop"
    /\ names = <<>>
    /\ pc' = "done"
    /\ UNCHANGED <<strings, names, results, stalled, retried, names2, results2, pc2, retried2, uvars>>

MergeInit ==
    /\ strings \in Tables
    /\ names \in KeyOrders(strings)
    /\ results = EmptyDict
    /\ pc = "loop"
    /\ stalled = 0
    /\ retried = FALSE
    /\ names2 = <<>>
    /\ results2 = EmptyDict
    /\ pc2 = "idle"
    /\ retried2 = FALSE
    /\ UriIdle

MergeNext == Iterate \/ Return

\* the loop is sequential code: it always takes its next step
FairMerge == MergeInit /\ [][MergeNext]_vars /\ WF_vars(MergeNext)

(***************************************************************************)
(* Two calls of merge_strings on one table, their key orders independent,  *)
(* stepped together: each call that is still in its loop takes one step.   *)
(***************************************************************************)
RunStep(tbl, q, res, p, rt) ==
    IF p # "loop" THEN [names |-> q, results |-> res, pc |-> p, retried |-> rt]
    ELSE IF q = <<>> THEN [names |-> q, results |-> res, pc |-> "done", retried |-> rt]
    ELSE LET r == IterateOn(tbl, q, res)
         IN  [names |-> r.names, results |-> r.results, pc |-> r.pc,
              retried |-> (rt \/ ~r.ok)]

BothStep ==
    /\ pc = "loop" \/ pc2 = "loop"
    /\ LET r1 == RunStep(strings, names, results, pc, retried)
           r2 == RunStep(strings, names2, results2, pc2, retried2)
       IN  /\ names' = r1.names /\ results' = r1.results
           /\ pc' = r1.pc /\ retried' = r1.retried
           /\ names2' = r2.names /\ results2' = r2.results
           /\ pc2' = r2.pc /\ retried2' = r2.retried
    /\ UNCHANGED <<strings, stalled, uvars>>

OrderInit ==
    /\ strings \in Tables
    /\ names \in KeyOrders(strings)
    /\ names2 \in KeyOrders(strings)
    /\ results = EmptyDict
    /\ results2 = EmptyDict
    /\ pc = "loop"
    /\ pc2 = "loop"
    /\ stalled = 0
    /\ retried = FALSE
    /\ retried2 = FALSE
    /\ UriIdle

SpecOrder == OrderInit /\ [][BothStep]_vars

(***************************************************************************)
(* Regular expressions as Python's re reads them under re.VERBOSE.         *)
(*                                                                         *)
(* A pattern is what a piece of pattern text denotes: a sequence of        *)
(* alternatives (the text between top-level "|"), each a sequence of       *)
(* items.  Concatenating two texts joins the last alternative of the first *)
(* to the first alternative of the second, which is how "%(authority)s"    *)
(* behaves when the text it stands for holds a "|" of its own.             *)
(***************************************************************************)
\* the printable characters in code order (without the backquote, which a
\* TLA+ string cannot hold; no range of the grammar spans it)
Ascii == Chars(" !\"#$%&'()*+,-./0123456789:;<=>?@ABCDEFGHIJKLMNOPQRSTUVWXYZ[\\]^_abcdefghijklmnopqrstuvwxyz{|}~")

Ord(c) == CHOOSE k \in 1..Len(Ascii) : Ascii[k] = c

CharRange(lo, hi) == {Ascii[k] : k \in Ord(lo)..Ord(hi)}

\* the characters of a class "[text]": under re.VERBOSE blanks inside a class
\* are members, "\x" is x, and "x-y" is a range unless the "-" ends the class
RECURSIVE ClassSet(_)
ClassSet(t) ==
    IF t = <<>> THEN {}
    ELSE LET n1 == IF t[1] = "\\" THEN 2 ELSE 1
             lo == t[n1]
             r1 == SubSeq(t, n1 + 1, Len(t))
         IN  IF Len(r1) >= 2 /\ r1[1] = "-"
             THEN LET n2 == IF r1[2] = "\\" THEN 3 ELSE 2
                  IN  CharRange(lo, r1[n2]) \cup ClassSet(SubSeq(r1, n2 + 1, Len(r1)))
             ELSE {lo} \cup ClassSet(r1)

Inf == -1

Atom(item) == << <<item>> >>
Cls(text) == Atom([t |-> "cls", set |-> ClassSet(text)])
Ch(c) == Atom([t |-> "cls", set |-> {c}])
Bol == Atom([t |-> "bol"])
Eol == Atom([t |-> "eol"])
Bar == << <<>>, <<>> >>
Grp(name, body) == Atom([t |-> "grp", name |-> name, body |-> body])

\* the text of P followed by the text of Q
Cat2(P, Q) == SubSeq(P, 1, Len(P) - 1) \o << P[Len(P)] \o Q[1] >> \o Tail(Q)

RECURSIVE Cat(_)
Cat(Ps) == IF Len(Ps) = 1 THEN Ps[1] ELSE Cat2(Ps[1], Cat(Tail(Ps)))

\* the text of P followed by a quantifier, which binds to the last item of the text
Quant(P, lo, hi) ==
    LET alt == P[Len(P)]
        item == alt[Len(alt)]
    IN  SubSeq(P, 1, Len(P) - 1)
        \o << SubSeq(alt, 1, Len(alt) - 1) \o <<[t |-> "rep", of |-> item, lo |-> lo, hi |-> hi]>> >>

Star(P) == Quant(P, 0, Inf)
Plus(P) == Quant(P, 1, Inf)
Opt(P) == Quant(P, 0, 1)

RECURSIVE ItemGroups(_)
RECURSIVE PatGroups(_)
ItemGroups(item) ==
    CASE item.t = "grp" -> (IF item.name = "" THEN {} ELSE {item.name}) \cup PatGroups(item.body)
      [] item.t = "rep" -> ItemGroups(item.of)
      [] OTHER -> {}
\* the group names of a pattern: the keys of groupdict()
PatGroups(P) ==
    UNION {UNION {ItemGroups(P[a][k]) : k \in 1..Len(P[a])} : a \in 1..Len(P)}

Unset == <<0, 0>>

(***************************************************************************)
(* The matcher: every way the pattern matches s from position i, as        *)
(* <<end position, captures>>, in the order a backtracking matcher tries   *)
(* them (alternatives left to right, quantifiers greedy).                  *)
(***************************************************************************)
RECURSIVE MatchItem(_, _, _, _)
RECURSIVE MatchSeq(_, _, _, _, _)
RECURSIVE MatchPat(_, _, _, _)
RECURSIVE MatchRep(_, _, _, _, _, _)
RECURSIVE Continue(_, _, _, _, _, _)
RECURSIVE Iterations(_, _, _, _, _, _, _)

MatchItem(item, s, i, caps) ==
    CASE item.t = "cls" ->
            IF i <= Len(s) /\ s[i] \in item.set THEN << <<i + 1, caps>> >> ELSE <<>>
      [] item.t = "bol" -> IF i = 1 THEN << <<i, caps>> >> ELSE <<>>
      [] item.t = "eol" ->
            IF i = Len(s) + 1 \/ (i = Len(s) /\ s[i] = "\n") THEN << <<i, caps>> >> ELSE <<>>
      [] item.t = "grp" ->
            LET rs == MatchPat(item.body, s, i, caps)
            IN  IF item.name = "" THEN rs
                ELSE [k \in 1..Len(rs) |->
                        <<rs[k][1], [rs[k][2] EXCEPT ![item.name] = <<i, rs[k][1]>>]>>]
      [] item.t = "rep" -> MatchRep(item.of, item.lo, item.hi, s, i, caps)

\* the results of items k.. of one alternative, continued from each of
\* rs[lo..hi] in turn
Continue(items, k, s, rs, lo, hi) ==
    IF lo > hi THEN <<>>
    ELSE IF lo = hi THEN MatchSeq(items, k, s, rs[lo][1], rs[lo][2])
    ELSE Continue(items, k, s, rs, lo, (lo + hi) \div 2)
         \o Continue(items, k, s, rs, (lo + hi) \div 2 + 1, hi)

MatchSeq(items, k, s, i, caps) ==
    IF k > Len(items) THEN << <<i, caps>> >>
    ELSE LET rs == MatchItem(items[k], s, i, caps)
         IN  Continue(items, k + 1, s, rs, 1, Len(rs))

MatchPat(P, s, i, caps) ==
    Flatten([a \in 1..Len(P) |-> MatchSeq(P[a], 1, s, i, caps)])

\* one more iteration from each of rs[from..to] in turn
Iterations(item, lo, hi, s, rs, from, to) ==
    IF from > to THEN <<>>
    ELSE IF from = to
    THEN MatchRep(item, IF lo > 0 THEN lo - 1 ELSE 0, IF hi = Inf THEN Inf ELSE hi - 1,
                  s, rs[from][1], rs[from][2])
    ELSE Iterations(item, lo, hi, s, rs, from, (from + to) \div 2)
         \o Iterations(item, lo, hi, s, rs, (from + to) \div 2 + 1, to)

\* the length of the longest run of characters of set in s from position i
Run(set, s, i) ==
    CHOOSE n \in 0..(Len(s) + 1 - i) :
        /\ \A j \in 0..(n - 1) : s[i + j] \in set
        /\ i + n > Len(s) \/ s[i + n] \notin set

\* greedy repetition of one character class: the longest run first, then
\* each shorter one down to lo characters
RepClass(set, lo, hi, s, i, caps) ==
    LET run == Run(set, s, i)
        most == IF hi = Inf THEN run ELSE Min(run, hi)
    IN  [k \in 1..(most - lo + 1) |-> <<i + most - k + 1, caps>>]

\* greedy repetition: first one more iteration, then, if lo allows, none
MatchRep(item, lo, hi, s, i, caps) ==
    IF item.t = "cls" THEN RepClass(item.set, lo, hi, s, i, caps) ELSE
    LET once == IF hi = 0 THEN <<>>
                ELSE SelectSeq(MatchItem(item, s, i, caps), LAMBDA r : r[1] > i)
    IN  Iterations(item, lo, hi, s, once, 1, Len(once))
        \o (IF lo = 0 THEN << <<i, caps>> >> ELSE <<>>)

\* Python's None where a match object is expected
NoMatch == [matched |-> FALSE]

\* re.compile(P).match(s): NoMatch, or the first match with its groupdict()
ReMatch(P, s) ==
    LET rs == MatchPat(P, s, 1, [g \in PatGroups(P) |-> Unset])
    IN  IF rs = <<>> THEN NoMatch
        ELSE [matched |-> TRUE,
              groupdict |-> [g \in PatGroups(P) |->
                                IF rs[1][2][g] = Unset THEN None
                                ELSE SubSeq(s, rs[1][2][g][1], rs[1][2][g][2] - 1)]]

(***************************************************************************)
(* partial_expressions.  The character-class terms are text that is put    *)
(* between "[" and "]"; merged, "%%" has become "%".                       *)
(***************************************************************************)
partial_digit == Chars("0-9")
partial_lowalpha == Chars("a-z")
partial_upalpha == Chars("A-Z")
partial_alpha == partial_lowalpha \o partial_upalpha
partial_alphanum == partial_alpha \o partial_digit
partial_escaped == Chars("%a-zA-Z0-9")
partial_mark == Chars("- _ \\. ! ~ * ' ( )")
partial_unreserved == partial_mark \o partial_alphanum
partial_reserved == Chars("; / ? : @ & = + $ ,")

partial_uric == Cls(partial_unreserved \o partial_reserved \o partial_escaped)
partial_fragment == Star(partial_uric)
partial_pchar == Cls(partial_unreserved \o partial_escaped \o Chars(":@&=+$,"))
partial_param == Star(partial_pchar)
partial_segment ==
    Grp("", Cat(<<Star(partial_pchar), Star(Grp("", Cat(<<Ch(";"), partial_param>>)))>>))
partial_path_segments ==
    Cat(<<Grp("", partial_segment), Star(Grp("", Cat(<<Ch("/"), partial_segment>>)))>>)
partial_abs_path == Cat(<<Ch("/"), partial_path_segments>>)
partial_IPv4address ==
    Grp("", Cat(<<Plus(Cls(Chars("0-9"))), Ch("."), Plus(Cls(Chars("0-9"))), Ch("."),
                  Plus(Cls(Chars("0-9"))), Ch("."), Plus(Cls(Chars("0-9")))>>))
partial_toplabel ==
    Grp("", Cat(<<Cls(partial_alpha), Bar,
                  Grp("", Cat(<<Cls(partial_alpha), Star(Cls(<<"-">> \o partial_alphanum)),
                                Cls(partial_alphanum)>>))>>))
partial_domainlabel ==
    Grp("", Cat(<<Cls(partial_alphanum), Bar,
                  Grp("", Cat(<<Cls(partial_alphanum), Star(Cls(<<"-">> \o partial_alphanum)),
                                Cls(partial_alphanum)>>))>>))
partial_hostname ==
    Cat(<<Star(Grp("", Cat(<<partial_domainlabel, Ch(".")>>))), partial_toplabel,
          Opt(Grp("", Ch(".")))>>)
partial_reg_name ==
    Star(Cls(partial_unreserved \o Chars(" ") \o partial_escaped \o Chars(" $ , ; : & = +")))
partial_scheme ==
    Cat(<<Cls(partial_alpha),
          Star(Cls(Chars("- + \\. ") \o partial_alpha \o Chars(" ") \o partial_digit))>>)
partial_rel_segment ==
    Quant(Cls(Chars(" ") \o partial_unreserved \o Chars(" ") \o partial_escaped
              \o Chars(" ; @ & = + $ ,")), 1, 1)
partial_rel_path == Cat(<<partial_rel_segment, Opt(Grp("", partial_abs_path))>>)
partial_uric_no_slash ==
    Cls(partial_unreserved \o Chars(" ") \o partial_escaped \o Chars(" ; ? : @ & = + $ ,"))

\* the templates both tables share, as functions of the terms the tables differ in
partial_hostport(host, port) == Cat(<<host, Opt(Grp("", Cat(<<Ch(":"), port>>)))>>)
partial_server(userinfo, hostport) ==
    Cat(<<Opt(Grp("", Cat(<<userinfo, Ch("@")>>))), hostport>>)

\* expressions = merge_strings(partial_expressions), the terms the grouped table overrides
expressions_query == Star(partial_uric)
expressions_port == Plus(Cls(Chars("0-9")))
expressions_host == Grp("", Cat(<<partial_hostname, Bar, partial_IPv4address>>))
expressions_hostport == partial_hostport(expressions_host, expressions_port)
expressions_userinfo ==
    Star(Cls(partial_unreserved \o Chars(" ") \o partial_escaped \o Chars(" $ , ; : & = +")))
expressions_server == partial_server(expressions_userinfo, expressions_hostport)
expressions_authority == Cat(<<expressions_server, Bar, partial_reg_name>>)
expressions_net_path == Cat(<<Ch("/"), Ch("/"), expressions_authority, partial_abs_path>>)
expressions_opaque_part == Cat(<<partial_uric_no_slash, Star(partial_uric)>>)
expressions_hier_part ==
    Cat(<<Grp("", Cat(<<Grp("", expressions_net_path), Bar, Grp("", partial_abs_path)>>)),
          Opt(Grp("", Cat(<<Ch("?"), expressions_query>>)))>>)
expressions_relativeURI ==
    Cat(<<Grp("", Cat(<<Grp("", expressions_net_path), Bar, Grp("", partial_abs_path), Bar,
                        Grp("", partial_rel_path), Bar, Grp("", expressions_opaque_part)>>)),
          Opt(Grp("", Cat(<<Ch("?"), expressions_query>>)))>>)
expressions_absoluteURI ==
    Cat(<<partial_scheme, Ch(":"), Grp("", expressions_hier_part), Bar,
          Grp("", expressions_opaque_part)>>)

(***************************************************************************)
(* grouped_partial_expressions, merged: grouped_expressions.               *)
(***************************************************************************)
grouped_userinfo ==
    Grp("userinfo",
        Star(Cls(partial_unreserved \o Chars(" ") \o partial_escaped \o Chars(" ; : & = + $ ,"))))
grouped_port == Grp("port", Star(Cls(Chars("0-9"))))
grouped_host == Grp("host", Cat(<<partial_hostname, Bar, partial_IPv4address>>))
grouped_query == Grp("query", Star(partial_uric))
grouped_abs_path == Cat(<<Ch("/"), partial_path_segments>>)
grouped_hostport == partial_hostport(grouped_host, grouped_port)
grouped_server == partial_server(grouped_userinfo, grouped_hostport)
grouped_authority == Grp("authority", Cat(<<Grp("", grouped_server), Bar, partial_reg_name>>))
grouped_net_path ==
    Cat(<<Ch("/"), Ch("/"), grouped_authority, Grp("net_path", grouped_abs_path)>>)
grouped_hier_part ==
    Cat(<<Grp("", Cat(<<Grp("", grouped_net_path), Bar, Grp("abs_path", grouped_abs_path)>>)),
          Opt(Grp("", Cat(<<Ch("?"), grouped_query>>)))>>)
grouped_opaque_part == Grp("opaque_part", Cat(<<partial_uric_no_slash, Star(partial_uric)>>))
grouped_scheme == Grp("scheme", partial_scheme)
grouped_rel_path == Cat(<<partial_rel_segment, Opt(Grp("", grouped_abs_path))>>)
grouped_relativeURI ==
    Cat(<<Grp("", Cat(<<Grp("", grouped_net_path), Bar, Grp("abs_path", grouped_abs_path), Bar,
                        Grp("rel_path", grouped_rel_path), Bar,
                        Grp("", grouped_opaque_part)>>)),
          Opt(Grp("", Cat(<<Ch("?"), grouped_query>>)))>>)
grouped_absoluteURI ==
    Cat(<<grouped_scheme, Ch(":"),
          Grp("", Cat(<<grouped_hier_part, Bar, grouped_opaque_part>>))>>)

(***************************************************************************)
(* The compiled matchers.                                                  *)
(***************************************************************************)
relativeURI ==
    Cat(<<Bol, grouped_relativeURI,
          Opt(Grp("", Cat(<<Ch("#"), Grp("fragment", partial_fragment)>>))), Eol>>)

absoluteURI ==
    Cat(<<Bol, grouped_absoluteURI,
          Opt(Grp("", Cat(<<Ch("#"), Grp("fragment", partial_fragment)>>))), Eol>>)

scheme == Cat(<<Bol, grouped_scheme, Ch(":")>>)

(***************************************************************************)
(* urlparse, the URIRef view and the relation utilities.                   *)
(***************************************************************************)
(* The two merged tables, by fragment name, for the names whose text is a  *)
(* pattern of its own.  A name the grouped table does not override has the *)
(* plain template in both (the setdefault loop).  URI_reference is left    *)
(* out: its grouped text names every group twice and does not compile.     *)
(***************************************************************************)
GrammarNames == {"uric", "fragment", "pchar", "param", "segment", "path_segments",
                 "abs_path", "IPv4address", "toplabel", "domainlabel", "hostname",
                 "reg_name", "scheme", "rel_segment", "rel_path", "uric_no_slash",
                 "query", "port", "host", "hostport", "userinfo", "server", "authority",
                 "net_path", "opaque_part", "hier_part", "relativeURI", "absoluteURI"}

expressions(n) ==
    CASE n = "uric" -> partial_uric
      [] n = "fragment" -> partial_fragment
      [] n = "pchar" -> partial_pchar
      [] n = "param" -> partial_param
      [] n = "segment" -> partial_segment
      [] n = "path_segments" -> partial_path_segments
      [] n = "abs_path" -> partial_abs_path
      [] n = "IPv4address" -> partial_IPv4address
      [] n = "toplabel" -> partial_toplabel
      [] n = "domainlabel" -> partial_domainlabel
      [] n = "hostname" -> partial_hostname
      [] n = "reg_name" -> partial_reg_name
      [] n = "scheme" -> partial_scheme
      [] n = "rel_segment" -> partial_rel_segment
      [] n = "rel_path" -> partial_rel_path
      [] n = "uric_no_slash" -> partial_uric_no_slash
      [] n = "query" -> expressions_query
      [] n = "port" -> expressions_port
      [] n = "host" -> expressions_host
      [] n = "hostport" -> expressions_hostport
      [] n = "userinfo" -> expressions_userinfo
      [] n = "server" -> expressions_server
      [] n = "authority" -> expressions_authority
      [] n = "net_path" -> expressions_net_path
      [] n = "opaque_part" -> expressions_opaque_part
      [] n = "hier_part" -> expressions_hier_part
      [] n = "relativeURI" -> expressions_relativeURI
      [] n = "absoluteURI" -> expressions_absoluteURI

grouped_expressions(n) ==
    CASE n = "userinfo" -> grouped_userinfo
      [] n = "port" -> grouped_port
      [] n = "host" -> grouped_host
      [] n = "query" -> grouped_query
      [] n = "abs_path" -> grouped_abs_path
      [] n = "hostport" -> grouped_hostport
      [] n = "server" -> grouped_server
      [] n = "authority" -> grouped_authority
      [] n = "net_path" -> grouped_net_path
      [] n = "hier_part" -> grouped_hier_part
      [] n = "opaque_part" -> grouped_opaque_part
      [] n = "scheme" -> grouped_scheme
      [] n = "rel_path" -> grouped_rel_path
      [] n = "relativeURI" -> grouped_relativeURI
      [] n = "absoluteURI" -> grouped_absoluteURI
      [] OTHER -> expressions(n)

\* the pattern accepts s: some way of matching it from the start of s ends at
\* the end of s
Accepts(P, s) ==
    LET rs == MatchPat(P, s, 1, [g \in PatGroups(P) |-> Unset])
    IN  \E k \in 1..Len(rs) : rs[k][1] = Len(s) + 1

(***************************************************************************)
\* Python's truth value of a text or None
Truthy(v) == v # None /\ v # <<>>

\* a slip: match falls back to the relative matcher when the absolute one fails
matchWithFallback(uriref) ==
    IF ReMatch(scheme, uriref).matched /\ ReMatch(absoluteURI, uriref).matched
    THEN ReMatch(absoluteURI, uriref)
    ELSE ReMatch(relativeURI, uriref)

\* match(uriref)
match(uriref) ==
    IF ReMatch(scheme, uriref).matched
    THEN ReMatch(absoluteURI, uriref)
    ELSE ReMatch(relativeURI, uriref)

\* the body of def urlparse (the six-part tuple), on the match m that
\* match(uriref) returned
urlparse_of(m) ==
    IF ~m.matched THEN Raised("AttributeError")
    ELSE LET md == m.groupdict
             netloc == IF "hostname" \in DOMAIN md
                       THEN IF "userinfo" \in DOMAIN md
                            THEN md["userinfo"] \o <<"@">> \o md["hostname"]
                            ELSE md["hostname"]
                       ELSE None
             path == IF "abs_path" \in DOMAIN md THEN md["abs_path"]
                     ELSE IF "net_path" \in DOMAIN md THEN md["net_path"]
                     ELSE None
             last_params == None
         IN  IF "hostname" \in DOMAIN md /\ "port" \in DOMAIN md
             THEN Raised("TypeError")      \* ':%i' % md['port'], a text or None
             ELSE IF "scheme" \notin DOMAIN md THEN Raised("KeyError")
             ELSE Returned(<<md["scheme"], netloc, path, last_params,
                             md["query"], md["fragment"]>>)

\* the function that "def urlparse" (lines 316-343) binds to the name urlparse
urlparse_def(uriref) == urlparse_of(match(uriref))

\* urlparse(uriref) in the module as it stands after import: "import urlparse"
\* (line 365) has rebound the name to the standard module, and calling a
\* module raises TypeError ('module' object is not callable) on every argument
urlparse(uriref) == Raised("TypeError")

URIRef(uri, targets) ==
    LET m == match(uri)
    IN  IF ~m.matched THEN Raised("AttributeError")
        ELSE Returned([groups |-> m.groupdict, opaque_targets |-> targets])

\* the property URIRef.query
URIRef_query(self) == self.groups["query"]

\* the property URIRef.path
URIRef_path(self) ==
    LET g == self.groups
        Has(p) == p \in DOMAIN g /\ Truthy(g[p])
    IN  IF Has("abs_path") THEN g["abs_path"]
        ELSE IF Has("rel_path") THEN g["rel_path"]
        ELSE IF Has("net_path") THEN g["net_path"]
        ELSE None

\* URIRef.__getattr__(name)
URIRef_getattr(self, name) ==
    LET p1 == IF name \in DOMAIN self.groups THEN self.groups[name] ELSE None
        p2 == IF ~Truthy(p1) /\ name \in self.opaque_targets
              THEN self.groups["opaque_part"] ELSE p1
        p3 == IF ~Truthy(p2) /\ name = "path" THEN URIRef_path(self) ELSE p2
    IN  p3

\* self.<name>: Python finds the class's properties first and calls __getattr__
\* only for a name that normal lookup does not find
Attr(self, name) ==
    CASE name = "query" -> URIRef_query(self)
      [] name = "path" -> URIRef_path(self)
      [] OTHER -> URIRef_getattr(self, name)

\* a slip: "elif self.opaque_part" written as "if"
generate_signature_if(self) ==
    (IF Truthy(Attr(self, "scheme")) THEN <<Attr(self, "scheme"), <<":">>>> ELSE <<>>)
    \o (IF Truthy(Attr(self, "host"))
        THEN <<Chars("//")>>
             \o (IF Truthy(Attr(self, "userinfo")) THEN <<Attr(self, "userinfo"), <<"@">>>> ELSE <<>>)
             \o <<Attr(self, "host")>>
             \o (IF Truthy(Attr(self, "port")) THEN <<<<":">>, Attr(self, "port")>> ELSE <<>>)
        ELSE <<>>)
    \o (IF Truthy(Attr(self, "path")) THEN <<Attr(self, "path")>> ELSE <<>>)
    \o (IF Truthy(Attr(self, "opaque_part")) THEN <<Attr(self, "opaque_part")>> ELSE <<<<"/">>>>)
    \o (IF Truthy(Attr(self, "query")) THEN <<<<"?">>, Attr(self, "query")>> ELSE <<>>)
    \o (IF Truthy(Attr(self, "fragment")) THEN <<<<"#">>, Attr(self, "fragment")>> ELSE <<>>)

\* URIRef.generate_signature(): the tuple of pieces
generate_signature(self) ==
    (IF Truthy(Attr(self, "scheme")) THEN <<Attr(self, "scheme"), <<":">>>> ELSE <<>>)
    \o (IF Truthy(Attr(self, "host"))
        THEN <<Chars("//")>>
             \o (IF Truthy(Attr(self, "userinfo")) THEN <<Attr(self, "userinfo"), <<"@">>>> ELSE <<>>)
             \o <<Attr(self, "host")>>
             \o (IF Truthy(Attr(self, "port")) THEN <<<<":">>, Attr(self, "port")>> ELSE <<>>)
        ELSE <<>>)
    \o (IF Truthy(Attr(self, "path")) THEN <<Attr(self, "path")>>
        ELSE IF Truthy(Attr(self, "opaque_part")) THEN <<Attr(self, "opaque_part")>>
        ELSE <<<<"/">>>>)
    \o (IF Truthy(Attr(self, "query")) THEN <<<<"?">>, Attr(self, "query")>> ELSE <<>>)
    \o (IF Truthy(Attr(self, "fragment")) THEN <<<<"#">>, Attr(self, "fragment")>> ELSE <<>>)

\* URIRef.__str__(): "".join(self.generate_signature())
URIRef_str(self) == Flatten(generate_signature(self))

(***************************************************************************)
(* The generic split the relation utilities rest on: urlparse.urlsplit of  *)
(* Python 2.7's standard library.                                          *)
(***************************************************************************)
\* s.find(c), counting from 1; 0 when c is not in s
Find(s, c) == IF \E k \in 1..Len(s) : s[k] = c
              THEN CHOOSE k \in 1..Len(s) : s[k] = c /\ \A j \in 1..(k - 1) : s[j] # c
              ELSE 0

Lower(c) == IF c \in CharRange("A", "Z") THEN Ascii[Ord(c) - Ord("A") + Ord("a")] ELSE c

scheme_chars == CharRange("a", "z") \cup CharRange("A", "Z") \cup CharRange("0", "9") \cup {"+", "-", "."}

\* s.split(c, 1) for a c that is in s
SplitOnce(s, c) == <<SubSeq(s, 1, Find(s, c) - 1), SubSeq(s, Find(s, c) + 1, Len(s))>>

\* _splitnetloc(url, 2)
splitnetloc(url) ==
    LET ends == {k \in 3..Len(url) : url[k] \in {"/", "?", "#"}}
        delim == IF ends = {} THEN Len(url) + 1 ELSE CHOOSE k \in ends : \A j \in ends : k <= j
    IN  <<SubSeq(url, 3, delim - 1), SubSeq(url, delim, Len(url))>>

\* urlsplit(url): (scheme, netloc, path, query, fragment); every part is a text
urlsplit(url) ==
    LET i == Find(url, ":")
        head == SubSeq(url, 1, i - 1)
        rest == SubSeq(url, i + 1, Len(url))
        cut == /\ i > 1
               /\ \/ head = Chars("http")
                  \/ /\ \A k \in 1..Len(head) : head[k] \in scheme_chars
                     /\ rest = <<>> \/ \E k \in 1..Len(rest) : rest[k] \notin CharRange("0", "9")
        sch == IF cut THEN [k \in 1..Len(head) |-> Lower(head[k])] ELSE <<>>
        url1 == IF cut THEN rest ELSE url
        net == Len(url1) >= 2 /\ url1[1] = "/" /\ url1[2] = "/"
        netloc == IF net THEN splitnetloc(url1)[1] ELSE <<>>
        url2 == IF net THEN splitnetloc(url1)[2] ELSE url1
        frag == Find(url2, "#") > 0
        url3 == IF frag THEN SplitOnce(url2, "#")[1] ELSE url2
        fragment == IF frag THEN SplitOnce(url2, "#")[2] ELSE <<>>
        qry == Find(url3, "?") > 0
        url4 == IF qry THEN SplitOnce(url3, "?")[1] ELSE url3
        query == IF qry THEN SplitOnce(url3, "?")[2] ELSE <<>>
    IN  IF net /\ ((Find(netloc, "[") > 0) # (Find(netloc, "]") > 0))
        THEN Raised("ValueError")
        ELSE Returned(<<sch, netloc, url4, query, fragment>>)

\* s.split(c)
RECURSIVE Split(_, _)
Split(s, c) == IF Find(s, c) = 0 THEN <<s>>
               ELSE <<SubSeq(s, 1, Find(s, c) - 1)>> \o Split(SubSeq(s, Find(s, c) + 1, Len(s)), c)

\* the body of onsamedomain, on the two lists of host labels
samedomain(host1, host2) ==
    LET n1 == Len(host1)
        n2 == Len(host2)
    IN  IF n1 > 0 /\ n2 > 0 /\ host1[n1] # host2[n2] THEN FALSE
        ELSE IF n1 > 1 /\ n2 > 1 THEN host1[n1 - 1] = host2[n2 - 1]
        ELSE FALSE

\* onsamedomain(url1, url2), for urls that urlsplit accepts
onsamedomain(url1, url2) ==
    samedomain(Split(urlsplit(url1).value[2], "."), Split(urlsplit(url2).value[2], "."))

\* "a is b" on two texts: object identity, which equal texts may or may not share
Is(a, b) == IF a = b THEN {TRUE, FALSE} ELSE {FALSE}

\* the comparison of isfragment, on the parts of the url and of the location
isfragment_parts(urlparts, locparts, samedomain_) ==
    {Returned(IF Truthy(urlparts[1]) /\ ~same1 THEN FALSE
              ELSE IF ~samedomain_ THEN FALSE
              ELSE IF Truthy(urlparts[3]) /\ ~same3 THEN FALSE
              ELSE IF Truthy(urlparts[4]) /\ ~same4 THEN FALSE
              ELSE TRUE) :
       same1 \in Is(urlparts[1], locparts[1]),
       same3 \in Is(urlparts[3], locparts[3]),
       same4 \in Is(urlparts[4], locparts[4])}

\* the body of isfragment, on what urlsplit gave for the url
isfragment_of(up, url, location) ==
    IF up.raised # "" THEN {up}
    ELSE IF ~Truthy(location) /\ up.value[5] # None THEN {Returned(FALSE)}
    ELSE IF Truthy(location) /\ Truthy(up.value[5])
    THEN IF urlsplit(location).raised # "" THEN {urlsplit(location)}
         ELSE isfragment_parts(up.value, urlsplit(location).value, onsamedomain(url, location))
    ELSE IF Truthy(up.value[5]) THEN {Returned(TRUE)}
    ELSE {Returned(FALSE)}

\* isfragment(url, location): every outcome the call can have
isfragment(url, location) == isfragment_of(urlsplit(url), url, location)

(***************************************************************************)
(* The texts the calls are made on.                                        *)
(***************************************************************************)
MaxLen == 3

Alphabet == {"a", "1", ":", "/", "?", "#"}

\* every text over Alphabet up to MaxLen characters
ShortInputs == UNION {[1..n -> Alphabet] : n \in 0..MaxLen}

\* references put together from parts: scheme, authority, path, query, fragment
SchemeParts == {"", "a:"}
AuthorityParts == {"", "//a", "//a.a", "//a:", "//a:1", "//@a", "//a@a", "//_", "//"}
PathParts == {"", "/", "/a", "a", "///"}
QueryParts == {"", "?", "?a"}
FragmentParts == {"", "#", "#a"}

BuiltInputs ==
    {Chars(sc) \o Chars(au) \o Chars(pa) \o Chars(qu) \o Chars(fr) :
        sc \in SchemeParts, au \in AuthorityParts, pa \in PathParts,
        qu \in QueryParts, fr \in FragmentParts}

\* the references of the module's documentation, the two long ones with
\* every component shortened
DocInputs ==
    {Chars("http://u@s.d.org:80/p/l?q=a#f"),
     Chars("ftp://u:p@e.org:43/pub/"),
     Chars("mid:some-message@example.org"),
     Chars("service?query=foo")}

Inputs == ShortInputs \cup BuiltInputs \cup DocInputs

TargetLists == {{}, {"path"}, {"query"}, {"port", "fragment"}}

AttrNames == {"scheme", "authority", "userinfo", "host", "port", "abs_path", "net_path",
              "rel_path", "opaque_part", "query", "fragment", "path"}

Locations == {None, <<>>, Chars("//a.a/a"), Chars("a://a.a/a?a")}

(***************************************************************************)
(* The calls, each from a fresh text.                                      *)
(***************************************************************************)
\* match(input)
Match ==
    /\ phase = "start"
    /\ ret' = match(input)
    /\ phase' = "match"
    /\ UNCHANGED <<input, view, asked, loc, ret2, mvars>>

\* urlparse(input)
Urlparse ==
    /\ phase = "start"
    /\ ret' = urlparse(input)
    /\ phase' = "urlparse"
    /\ UNCHANGED <<input, view, asked, loc, ret2, mvars>>

\* isfragment(input, location)
IsFragment ==
    /\ phase = "start"
    /\ \E l \in Locations :
          /\ loc' = l
          /\ ret' \in isfragment(input, l)
    /\ phase' = "isfragment"
    /\ UNCHANGED <<input, view, asked, ret2, mvars>>

\* URIRef(input, opaque_targets=targets)
Construct ==
    /\ phase = "start"
    /\ \E targets \in TargetLists : view' = URIRef(input, targets)
    /\ phase' = "URIRef"
    /\ UNCHANGED <<input, asked, loc, ret, ret2, mvars>>

\* view.<n>
ReadAttr ==
    /\ phase = "URIRef"
    /\ view.raised = ""
    /\ \E n \in AttrNames :
          /\ asked' = n
          /\ ret' = Returned(Attr(view.value, n))
    /\ phase' = "getattr"
    /\ UNCHANGED <<input, view, loc, ret2, mvars>>

\* str(view)
Str ==
    /\ phase = "URIRef"
    /\ view.raised = ""
    /\ ret' = Returned(URIRef_str(view.value))
    /\ phase' = "str"
    /\ UNCHANGED <<input, view, asked, loc, ret2, mvars>>

\* str(URIRef(ret)), ret the text str(view) gave
StrAgain ==
    /\ phase = "str"
    /\ LET again == URIRef(ret.value, {})
       IN  ret2' = IF again.raised # "" THEN again ELSE Returned(URIRef_str(again.value))
    /\ phase' = "restr"
    /\ UNCHANGED <<input, view, asked, loc, ret, mvars>>

\* whether the plain and the grouped pattern of one fragment name accept input
Compare ==
    /\ phase = "start"
    /\ \E n \in GrammarNames :
          /\ asked' = n
          /\ ret' = Returned(<<Accepts(expressions(n), input),
                               Accepts(grouped_expressions(n), input)>>)
    /\ phase' = "compare"
    /\ UNCHANGED <<input, view, loc, ret2, mvars>>

MergeIdle ==
    /\ strings = EmptyDict
    /\ names = <<>>
    /\ results = EmptyDict
    /\ pc = "idle"
    /\ stalled = 0
    /\ retried = FALSE
    /\ names2 = <<>>
    /\ results2 = EmptyDict
    /\ pc2 = "idle"
    /\ retried2 = FALSE

UriInit ==
    /\ input \in Inputs
    /\ phase = "start"
    /\ view = Raised("unset")
    /\ asked = ""
    /\ loc = None
    /\ ret = Raised("unset")
    /\ ret2 = Raised("unset")
    /\ MergeIdle

UriNext ==
    Match \/ Urlparse \/ IsFragment \/ Compare \/ Construct \/ ReadAttr \/ Str \/ StrAgain

SpecUri == UriInit /\ [][UriNext]_vars

(***************************************************************************)
(* What a table can resolve to, defined on the placeholder graph alone.    *)
(***************************************************************************)
RECURSIVE Closure(_, _)
Closure(tbl, done) ==
    LET more == {n \in DOMAIN tbl \ done : Refs(tbl[n]) \subseteq done}
    IN  IF more = {} THEN done ELSE Closure(tbl, done \cup more)

\* the names whose placeholders are, transitively, all names of the table, with no cycle
Resolvable(tbl) == Closure(tbl, {})

Unresolvable(tbl) == DOMAIN tbl \ Resolvable(tbl)

AcyclicAndDefined(tbl) == Resolvable(tbl) = DOMAIN tbl

\* the template of n with every placeholder replaced, transitively
RECURSIVE Expand(_, _)
Expand(tbl, n) ==
    LET t == tbl[n]
    IN  Flatten([i \in 1..Len(t) |->
            CASE t[i][1] = "lit" -> <<t[i][2]>>
              [] t[i][1] = "pct" -> <<"%">>
              [] t[i][1] = "ref" -> Expand(tbl, t[i][2])])

\* the text holds "%(", the start of a placeholder
HasPlaceholder(text) == \E i \in 1..(Len(text) - 1) : text[i] = "%" /\ text[i + 1] = "("

UsesPlaceholders(tbl) == \E n \in DOMAIN tbl : Refs(tbl[n]) # {}

(***************************************************************************)
(* C1: on a table whose placeholder graph is acyclic and names only keys   *)
(* of the table, merge_strings never raises, returns, and returns one      *)
(* entry per name of the table, each the template with every placeholder   *)
(* substituted transitively, none holding a placeholder.                   *)
(***************************************************************************)
C1_ResolvesAcyclic ==
    AcyclicAndDefined(strings) =>
        /\ [](pc # "failed")
        /\ <>(pc = "done")
        /\ [](pc = "done" =>
                /\ DOMAIN results = DOMAIN strings
                /\ \A n \in DOMAIN strings :
                      /\ results[n] = Expand(strings, n)
                      /\ ~HasPlaceholder(results[n]))

C1_Witness ==
    /\ pc = "done"
    /\ AcyclicAndDefined(strings)
    /\ retried
    /\ \E n \in DOMAIN strings : Cardinality(Refs(strings[n])) = 2

(***************************************************************************)
(* C2 as claimed: on a table with at least one name that can never be      *)
(* resolved, however many, merge_strings ends with 'Cannot resolve'.       *)
(***************************************************************************)
C2_FailsForAnyNumber ==
    Unresolvable(strings) # {} => <>(pc = "failed")

(***************************************************************************)
(* C2 as amended: with exactly one name that can never be resolved,        *)
(* merge_strings ends with 'Cannot resolve' and never returns; with two or *)
(* more it stays in its loop forever, neither failing nor returning.       *)
(***************************************************************************)
C2_FailsForOneLoopsForMore ==
    /\ Cardinality(Unresolvable(strings)) = 1 => <>(pc = "failed") /\ [](pc # "done")
    /\ Cardinality(Unresolvable(strings)) >= 2 => [](pc = "loop")

C2_Witness ==
    /\ pc = "failed"
    /\ Cardinality(Unresolvable(strings)) = 1
    /\ DOMAIN results = Resolvable(strings)
    /\ names = <<CHOOSE n \in DOMAIN strings : n \in Unresolvable(strings)>>

(***************************************************************************)
(* C3: two calls on the same table with any two key orders never end one   *)
(* returning and the other failing, and when both return they return the   *)
(* same dictionary.                                                        *)
(***************************************************************************)
C3_OrderIndependent ==
    /\ pc = "done" /\ pc2 = "done" => results = results2
    /\ ~(pc = "done" /\ pc2 = "failed")
    /\ ~(pc = "failed" /\ pc2 = "done")
    /\ AcyclicAndDefined(strings) => pc # "failed" /\ pc2 # "failed"

C3_Witness ==
    /\ pc = "done" /\ pc2 = "done"
    /\ retried /\ ~retried2
    /\ UsesPlaceholders(strings)

(***************************************************************************)
(* C4: match is a two-stage dispatch with no fallback.  When the scheme    *)
(* detector matches a prefix of the input the result is the result of the  *)
(* absolute matcher, otherwise the result of the relative matcher; so an   *)
(* input with a scheme prefix that the absolute matcher rejects gets None, *)
(* also when the relative matcher accepts it.                              *)
(***************************************************************************)
C4_TwoStageDispatch ==
    phase = "match" =>
        /\ ReMatch(scheme, input).matched => ret = ReMatch(absoluteURI, input)
        /\ ~ReMatch(scheme, input).matched => ret = ReMatch(relativeURI, input)
        /\ ReMatch(scheme, input).matched /\ ~ReMatch(absoluteURI, input).matched
              => ret = NoMatch

C4_Witness ==
    /\ phase = "match"
    /\ ReMatch(scheme, input).matched
    /\ ~ReMatch(absoluteURI, input).matched
    /\ ReMatch(relativeURI, input).matched
    /\ ret = NoMatch

(***************************************************************************)
(* The text the reconstruction is said to emit, from the captures alone,   *)
(* for one reading Present(g, n) of "component n is present".              *)
(***************************************************************************)
\* the capture of group n, None when the pattern has no such group
Cap(g, n) == IF n \in DOMAIN g THEN g[n] ELSE None

Captured(g, n) == Cap(g, n) # None

NonEmpty(g, n) == Cap(g, n) # None /\ Cap(g, n) # <<>>

\* the first non-empty capture among ns, the empty text when there is none
FirstNonEmpty(g, ns) ==
    IF \E k \in 1..Len(ns) : NonEmpty(g, ns[k])
    THEN g[ns[CHOOSE k \in 1..Len(ns) :
                 NonEmpty(g, ns[k]) /\ \A j \in 1..(k - 1) : ~NonEmpty(g, ns[j])]]
    ELSE <<>>

Emitted(g, Present(_, _)) ==
    LET body == FirstNonEmpty(g, <<"abs_path", "rel_path", "net_path", "opaque_part">>)
    IN  (IF Present(g, "scheme") THEN Cap(g, "scheme") \o <<":">> ELSE <<>>)
        \o (IF Present(g, "host")
            THEN <<"/", "/">>
                 \o (IF Present(g, "userinfo") THEN Cap(g, "userinfo") \o <<"@">> ELSE <<>>)
                 \o Cap(g, "host")
                 \o (IF Present(g, "port") THEN <<":">> \o Cap(g, "port") ELSE <<>>)
            ELSE <<>>)
        \o (IF body = <<>> THEN <<"/">> ELSE body)
        \o (IF Present(g, "query") THEN <<"?">> \o Cap(g, "query") ELSE <<>>)
        \o (IF Present(g, "fragment") THEN <<"#">> \o Cap(g, "fragment") ELSE <<>>)

(***************************************************************************)
(* C5 as claimed: str of a view emits scheme, authority, path or opaque    *)
(* part, query and fragment in that order, a component being present when  *)
(* its capture took part in the match, the empty capture included.         *)
(***************************************************************************)
C5_EmitsCaptured ==
    phase = "str" /\ view.value.opaque_targets = {} =>
        ret = Returned(Emitted(view.value.groups, Captured))

(***************************************************************************)
(* C5 as amended: the same emission, a component being present when its    *)
(* capture took part in the match and is not empty; an empty capture emits *)
(* nothing, its delimiter neither.  For a view without opaque targets.     *)
(***************************************************************************)
C5_EmitsNonEmpty ==
    phase = "str" /\ view.value.opaque_targets = {} =>
        ret = Returned(Emitted(view.value.groups, NonEmpty))

C5_Witness ==
    /\ phase = "str"
    /\ view.value.opaque_targets = {}
    /\ Captured(view.value.groups, "query")
    /\ ~NonEmpty(view.value.groups, "query")
    /\ NonEmpty(view.value.groups, "host")
    /\ ret = Returned(Emitted(view.value.groups, NonEmpty))
    /\ ret # Returned(Emitted(view.value.groups, Captured))

(***************************************************************************)
(* C6: reading a component that is listed in the view's opaque_targets     *)
(* gives the value of opaque_part whenever the component's own value is    *)
(* absent or empty, 'path' and 'query' included.                           *)
(***************************************************************************)
C6_OpaqueFallback ==
    /\ phase = "getattr"
    /\ asked \in view.value.opaque_targets
    /\ ~Truthy(IF asked = "path"
               THEN FirstNonEmpty(view.value.groups, <<"abs_path", "rel_path", "net_path">>)
               ELSE Cap(view.value.groups, asked))
    => ret = Returned(view.value.groups["opaque_part"])

(***************************************************************************)
(* C7: for every input that match accepts, urlparse returns a tuple whose  *)
(* path field is the abs_path capture when that capture took part in the   *)
(* match, the net_path capture otherwise.                                  *)
(***************************************************************************)
C7_PathField ==
    phase = "urlparse" /\ match(input).matched =>
        /\ ret.raised = ""
        /\ ret.value[3] = IF Captured(match(input).groupdict, "abs_path")
                          THEN match(input).groupdict["abs_path"]
                          ELSE match(input).groupdict["net_path"]

(***************************************************************************)
(* C8: str is idempotent.  The text c = str(URIRef(s)) is accepted by      *)
(* URIRef and str(URIRef(c)) = c.                                          *)
(***************************************************************************)
C8_Idempotent ==
    phase = "restr" /\ view.value.opaque_targets = {} => ret2 = ret

(***************************************************************************)
(* C9: for every fragment name the plain and the grouped pattern accept    *)
(* the same texts.                                                         *)
(***************************************************************************)
C9_SameLanguage ==
    phase = "compare" => ret.value[1] = ret.value[2]

(***************************************************************************)
(* C10: without a location, isfragment is true of a url whose split has a  *)
(* non-empty fragment and no query, and false of a url with no fragment.   *)
(***************************************************************************)
C10_NoLocation ==
    phase = "isfragment" /\ loc = None /\ urlsplit(input).raised = "" =>
        /\ urlsplit(input).value[5] # <<>> /\ urlsplit(input).value[4] = <<>>
              => ret = Returned(TRUE)
        /\ urlsplit(input).value[5] = <<>> => ret = Returned(FALSE)

=============================================================================
